---- MODULE Spec2Model ----
(***************************************************************************)
(* Model of loader.go of kpc2/impatience: LoadFile, Game.Import and the    *)
(* Register (AddCard / AddCards) that enforces the integrity of the deck.  *)
(*                                                                         *)
(* A card code is a sequence of one-character strings, <<rank, suit>> or   *)
(* <<rank, suit, "?">>.  A Go map is a function whose DOMAIN is the set of *)
(* keys present; a Go slice is a sequence; a nil pointer is <<>> and a     *)
(* pointer to v is <<v>>.                                                  *)
(***************************************************************************)
EXTENDS Integers, Sequences, FiniteSets, TLC

VARIABLES
    file,      \* the file LoadFile is asked to read
    save,      \* *SaveData returned by LoadFile: <<>> is nil, <<doc>> a document
    loaderr,   \* error returned by LoadFile
    pc,        \* the section of the program that runs next, or ran last
    returned,  \* Import has returned
    err,       \* the error Import returned (NoError is nil)
    game,      \* the Game that Import fills
    r,         \* the Register
    fdTotal,   \* Import's local fdTotal
    idx,       \* the number of tableau stacks the range loop has taken
    visited,   \* the keys of save.Foundations the range loop has taken
    call,      \* the last call made on the Register and what it returned
    calls      \* the number of codes handed to the Register since its start

vars == <<file, save, loaderr, pc, returned, err, game, r, fdTotal, idx, visited,
          call, calls>>

----------------------------------------------------------------------------
(* Program constants *)

DeckSize == 52
SuitSize == 13
RankSize == 4
MaxTableau == 7
MaxFacedown == 21
WildMark == "?"

----------------------------------------------------------------------------
(* Cards and card codes (card.go is not part of the sources) *)

SPADES == "SPADES"
CLUBS == "CLUBS"
HEARTS == "HEARTS"
DIAMONDS == "DIAMONDS"

CardSuit == {SPADES, CLUBS, HEARTS, DIAMONDS}
CardRank == 1..13

RankChars == <<"A", "2", "3", "4", "5", "6", "7", "8", "9", "T", "J", "Q", "K">>
SuitChars == [s \in CardSuit |->
                CASE s = SPADES -> "s" [] s = CLUBS -> "c"
                  [] s = HEARTS -> "h" [] s = DIAMONDS -> "d"]

NoCard == <<>>

\* a code of a known card, and the code of an unknown (wildcard) card
Code(rk, s) == <<RankChars[rk], SuitChars[s]>>
WildCode(rk, s) == <<RankChars[rk], SuitChars[s], WildMark>>

ParseCard(code) ==
    IF /\ Len(code) \in {2, 3}
       /\ \E rk \in CardRank : RankChars[rk] = code[1]
       /\ \E s \in CardSuit : SuitChars[s] = code[2]
       /\ Len(code) = 3 => code[3] = WildMark
    THEN [ok |-> TRUE,
          card |-> <<[Suit |-> CHOOSE s \in CardSuit : SuitChars[s] = code[2],
                      Rank |-> CHOOSE rk \in CardRank : RankChars[rk] = code[1],
                      Unknown |-> Len(code) = 3]>>]
    ELSE [ok |-> FALSE, card |-> NoCard]

Id(card) ==
    <<RankChars[card.Rank], SuitChars[card.Suit]>>
        \o (IF card.Unknown THEN <<WildMark>> ELSE <<>>)

\* strings.Contains(id, "?")
Contains(id, ch) == \E k \in 1..Len(id) : id[k] = ch

----------------------------------------------------------------------------
(* Errors: kind, and the values the message is built from *)

NoError == [kind |-> "nil", args |-> <<>>]
ParseError(code) == [kind |-> "ParseError", args |-> <<code>>]
DuplicateCardError == [kind |-> "DuplicateCardError", args |-> <<>>]
OverflowError(invalids) == [kind |-> "OverflowError", args |-> invalids]

----------------------------------------------------------------------------
(* Register *)

NewRegister == [Cards |-> {}, Suits |-> <<>>, Ranks |-> <<>>, Total |-> 0]

\* m[k] = v on a Go map
MapSet(m, k, v) == [x \in DOMAIN m \cup {k} |-> IF x = k THEN v ELSE m[x]]

\* m[k] on a Go map: the zero value when k is absent
MapGet(m, k) == IF k \in DOMAIN m THEN m[k] ELSE 0

\* CheckDuplicate without the insertion of line 167
CheckDuplicate_NoInsert(cards, id) ==
    IF ~Contains(id, WildMark)
    THEN IF id \in cards
         THEN [dup |-> TRUE, Cards |-> cards]
         ELSE [dup |-> FALSE, Cards |-> cards]
    ELSE [dup |-> FALSE, Cards |-> cards]

\* CheckDuplicate without the test of line 163
CheckDuplicate_NoExemption(cards, id) ==
    IF id \in cards
    THEN [dup |-> TRUE, Cards |-> cards]
    ELSE [dup |-> FALSE, Cards |-> cards \cup {id}]

\* lines 161-169: [dup |-> the card was seen before, Cards |-> the new set]
CheckDuplicate(cards, id) ==
    IF ~Contains(id, WildMark)
    THEN IF id \in cards
         THEN [dup |-> TRUE, Cards |-> cards]
         ELSE [dup |-> FALSE, Cards |-> cards \cup {id}]
    ELSE [dup |-> FALSE, Cards |-> cards]

\* lines 178-183: [Total |-> the stored total, invalids |-> what was recorded]
CountTotal(total) ==
    IF total + 1 > DeckSize
    THEN [Total |-> (total + 1) - 1, invalids |-> << <<"too many cards.">> >>]
    ELSE [Total |-> total + 1, invalids |-> <<>>]

SuitName(s) == s
RankName(rk) == RankChars[rk]

\* CountKey that stores 0 for a key it meets for the first time
CountKey_FirstUncounted(m, k, max, name) ==
    LET local == IF k \in DOMAIN m THEN m[k] + 1 ELSE 0
    IN  [Map |-> MapSet(m, k, local),
         invalids |-> IF local > max THEN << <<"too many", name, "cards">> >>
                                     ELSE <<>>]

\* CountKey with >= for > at lines 193 and 208
CountKey_AtLimit(m, k, max, name) ==
    LET local == IF k \in DOMAIN m THEN m[k] + 1 ELSE 0
        stored == IF k \in DOMAIN m THEN m[k] + 1 ELSE 1
    IN  [Map |-> MapSet(m, k, stored),
         invalids |-> IF local >= max THEN << <<"too many", name, "cards">> >>
                                      ELSE <<>>]

\* lines 185-198 and 200-213: the same code for the suit and for the rank.
\* The local (suitTotal, rankTotal) is decremented on overflow, the map is not.
CountKey(m, k, max, name) ==
    LET local == IF k \in DOMAIN m THEN m[k] + 1 ELSE 0
        stored == IF k \in DOMAIN m THEN m[k] + 1 ELSE 1
    IN  [Map |-> MapSet(m, k, stored),
         invalids |-> IF local > max THEN << <<"too many", name, "cards">> >>
                                     ELSE <<>>]

\* AddCard that takes the identity out of Cards again when a count overflows
AddCard_RollbackSeen(reg, code) ==
    LET parsed == ParseCard(code)
    IN  IF ~parsed.ok
        THEN [r |-> reg, card |-> NoCard, err |-> ParseError(code)]
        ELSE
          LET card == parsed.card[1]
              seen == CheckDuplicate(reg.Cards, Id(card))
          IN  IF seen.dup
              THEN [r |-> reg, card |-> NoCard, err |-> DuplicateCardError]
              ELSE
                LET t == CountTotal(reg.Total)
                    s == CountKey(reg.Suits, card.Suit, SuitSize, SuitName(card.Suit))
                    k == CountKey(reg.Ranks, card.Rank, RankSize, RankName(card.Rank))
                    invalids == t.invalids \o s.invalids \o k.invalids
                    reg2 == [Cards |-> seen.Cards, Suits |-> s.Map,
                             Ranks |-> k.Map, Total |-> t.Total]
                IN  IF Len(invalids) > 0
                    THEN [r |-> [reg2 EXCEPT !.Cards = reg.Cards], card |-> NoCard,
                          err |-> OverflowError(invalids)]
                    ELSE [r |-> reg2, card |-> <<card>>, err |-> NoError]

AddCard(reg, code) ==
    LET parsed == ParseCard(code)
    IN  IF ~parsed.ok
        THEN [r |-> reg, card |-> NoCard, err |-> ParseError(code)]
        ELSE
          LET card == parsed.card[1]
              seen == CheckDuplicate(reg.Cards, Id(card))
          IN  IF seen.dup
              THEN [r |-> reg, card |-> NoCard, err |-> DuplicateCardError]
              ELSE
                LET t == CountTotal(reg.Total)
                    s == CountKey(reg.Suits, card.Suit, SuitSize, SuitName(card.Suit))
                    k == CountKey(reg.Ranks, card.Rank, RankSize, RankName(card.Rank))
                    invalids == t.invalids \o s.invalids \o k.invalids
                    reg2 == [Cards |-> seen.Cards, Suits |-> s.Map,
                             Ranks |-> k.Map, Total |-> t.Total]
                IN  IF Len(invalids) > 0
                    THEN [r |-> reg2, card |-> NoCard, err |-> OverflowError(invalids)]
                    ELSE [r |-> reg2, card |-> <<card>>, err |-> NoError]

\* AddCardsFrom that returns the stack built so far when a code fails
RECURSIVE AddCardsFrom_PartialStack(_, _, _, _)
AddCardsFrom_PartialStack(reg, codes, n, stack) ==
    IF n > Len(codes)
    THEN [r |-> reg, cards |-> stack, err |-> NoError]
    ELSE LET res == AddCard(reg, codes[n])
         IN  IF res.err.kind # "nil"
             THEN [r |-> res.r, cards |-> stack, err |-> res.err]
             ELSE AddCardsFrom_PartialStack(res.r, codes, n + 1,
                                            Append(stack, res.card[1]))

\* lines 223-234; cards is the stack built so far, nil (<<>>) on failure
RECURSIVE AddCardsFrom(_, _, _, _)
AddCardsFrom(reg, codes, n, stack) ==
    IF n > Len(codes)
    THEN [r |-> reg, cards |-> stack, err |-> NoError]
    ELSE LET res == AddCard(reg, codes[n])
         IN  IF res.err.kind # "nil"
             THEN [r |-> res.r, cards |-> <<>>, err |-> res.err]
             ELSE AddCardsFrom(res.r, codes, n + 1, Append(stack, res.card[1]))

AddCards(reg, codes) == AddCardsFrom(reg, codes, 1, <<>>)

----------------------------------------------------------------------------
(* Documents (SaveData) *)

MaxFoundation == 2    \* cards in a document's spades and hearts foundations

SuitOrder == <<SPADES, CLUBS, HEARTS, DIAMONDS>>
KeyOrder == <<"spades", "clubs", "hearts", "diamonds">>
CanonicalKeys == {KeyOrder[n] : n \in 1..4}
SuitOfKey(key) == SuitOrder[CHOOSE n \in 1..4 : KeyOrder[n] = key]

\* the 52 codes of one deck: spades A..K, clubs, hearts, diamonds
Deck == [n \in 1..DeckSize |-> Code(((n - 1) % SuitSize) + 1,
                                     SuitOrder[((n - 1) \div SuitSize) + 1])]

RECURSIVE SumSeq(_)
SumSeq(q) == IF Len(q) = 0 THEN 0 ELSE Head(q) + SumSeq(Tail(q))

SeqSet(q) == {q[n] : n \in 1..Len(q)}

\* the Klondike deal on n stacks: stack j holds j cards, j-1 of them facedown
Klondike(n) == [lens |-> [j \in 1..n |-> j], fds |-> [j \in 1..n |-> j - 1]]

ShapeFaults == {"none", "topdown", "empty", "negative", "deep", "short", "long"}

\* one irregularity at stack p of a deal
Perturb(shape, p, fault) ==
    LET n == Len(shape.lens)
    IN  CASE fault = "topdown" /\ p \in 1..n ->
               [shape EXCEPT !.fds[p] = shape.lens[p]]
          [] fault = "empty" /\ p \in 1..n ->
               [shape EXCEPT !.lens[p] = 0, !.fds[p] = 0]
          [] fault = "negative" /\ p \in 1..n ->
               [shape EXCEPT !.fds[p] = -1]
          [] fault = "deep" /\ p \in 1..n ->
               [shape EXCEPT !.lens[p] = @ + 1, !.fds[p] = @ + 1]
          [] fault = "short" /\ n > 0 ->
               [shape EXCEPT !.fds = SubSeq(@, 1, n - 1)]
          [] fault = "long" ->
               [shape EXCEPT !.fds = Append(@, 0)]
          [] OTHER -> shape

StackCounts == {0, 2, MaxTableau, MaxTableau + 1}

Shapes == {Perturb(Klondike(n), p, fault) :
              <<n, p, fault>> \in {t \in StackCounts \X (1..(MaxTableau + 1)) \X ShapeFaults :
                                     t[2] \in {1, t[1]}}}

BaseShape == Klondike(MaxTableau)

KeySets == {{}, {"hearts"}, {"spades", "hearts"}, CanonicalKeys,
            {"hearts", "joker"}, {"spades", "hearts", "joker"}}

\* the deal: foundations first (spades and hearts hold their f lowest cards,
\* any other key an empty pile), then the tableau stacks, the rest is the stock
Layout(K, f, shape) ==
    LET fnd == [k \in K |-> IF k \in {"spades", "hearts"}
                            THEN [j \in 1..f |-> Code(j, SuitOfKey(k))]
                            ELSE <<>>]
        used == UNION {SeqSet(fnd[k]) : k \in K}
        rest == SelectSeq(Deck, LAMBDA c : c \notin used)
        n == Len(shape.lens)
        off == [j \in 1..(n + 1) |-> SumSeq(SubSeq(shape.lens, 1, j - 1))]
    IN  [Stock |-> [Limit |-> 3, Loop |-> 1, Pos |-> 2,
                    Stack |-> SubSeq(rest, off[n + 1] + 1, Len(rest))],
         Tableau |-> [Stacks |-> [j \in 1..n |-> SubSeq(rest, off[j] + 1, off[j + 1])],
                      Facedown |-> shape.fds],
         Foundations |-> fnd]

EditZones == {"stock", "tableau", "fhead", "ftail"}
EditKinds == {"dup", "dupk", "bad", "mask", "wild", "swap", "drop"}
NoEdit == [zone |-> "none", kind |-> "none"]
Edits == {NoEdit} \cup [zone : EditZones, kind : EditKinds]

BadCode == <<"Z", "s">>

Replace(q, n, c) == [q EXCEPT ![n] = c]
Remove(q, n) == SubSeq(q, 1, n - 1) \o SubSeq(q, n + 1, Len(q))

\* the card sequence an edit is made in, after the edit; cur is the code at
\* the edited place and last the code at the end of the stock
Edited(q, n, kind, last) ==
    CASE kind = "dup" -> Replace(q, n, Code(1, SPADES))
      [] kind = "dupk" -> Replace(q, n, Code(13, HEARTS))
      [] kind = "bad" -> Replace(q, n, BadCode)
      [] kind = "mask" -> Replace(q, n, Append(q[n], WildMark))
      [] kind = "wild" -> Replace(q, n, WildCode(1, CLUBS))
      [] kind = "swap" -> Replace(q, n, last)
      [] kind = "drop" -> Remove(q, n)
      [] OTHER -> q

\* an edit of one place of a document; a swap also puts the code that was
\* there at the end of the stock
ApplyEdit(doc, e) ==
    LET stock == doc.Stock.Stack
        n == Len(doc.Tableau.Stacks)
        last == stock[Len(stock)]
        SwapOut(d, c) == IF e.kind = "swap"
                         THEN [d EXCEPT !.Stock.Stack[Len(stock)] = c]
                         ELSE d
    IN  CASE e.zone = "stock" /\ Len(stock) > 1 ->
               SwapOut([doc EXCEPT !.Stock.Stack = Edited(stock, 1, e.kind, last)],
                       stock[1])
          [] e.zone = "tableau" /\ n > 0 /\ Len(doc.Tableau.Stacks[n]) > 0 ->
               LET q == doc.Tableau.Stacks[n]
               IN  SwapOut([doc EXCEPT !.Tableau.Stacks[n] =
                                           Edited(q, Len(q), e.kind, last)],
                           q[Len(q)])
          [] e.zone \in {"fhead", "ftail"} /\ "hearts" \in DOMAIN doc.Foundations
                /\ Len(doc.Foundations["hearts"]) > 0 ->
               LET q == doc.Foundations["hearts"]
                   m == IF e.zone = "fhead" THEN 1 ELSE Len(q)
               IN  SwapOut([doc EXCEPT !.Foundations["hearts"] =
                                           Edited(q, m, e.kind, last)],
                           q[m])
          [] OTHER -> doc

\* edits that are combined with an irregular tableau
ComboEdits == {NoEdit, [zone |-> "stock", kind |-> "dup"],
               [zone |-> "ftail", kind |-> "dup"]}

Docs == {ApplyEdit(Layout(K, f, shape), e) :
            <<K, f, shape, e>> \in {t \in KeySets \X (1..MaxFoundation) \X Shapes \X Edits :
                                      t[3] = BaseShape \/ t[4] \in ComboEdits}}

\* the zero value of SaveData
ZeroDoc == [Stock |-> [Limit |-> 0, Loop |-> 0, Pos |-> 0, Stack |-> <<>>],
            Tableau |-> [Stacks |-> <<>>, Facedown |-> <<>>],
            Foundations |-> <<>>]

----------------------------------------------------------------------------
(* LoadFile *)

Exts == {".json", ".toml", ".txt", ""}
Formats == {"json", "toml", "garbage"}

\* the documents of the files that are not well-formed .json files
LoadDocs == {Layout({}, 1, BaseShape), Layout({"hearts"}, 1, Klondike(0))}

Files == {[exists |-> TRUE, readable |-> TRUE, ext |-> ".json",
           format |-> "json", doc |-> d] : d \in Docs}
         \cup [exists : BOOLEAN, readable : BOOLEAN, ext : Exts,
               format : Formats, doc : LoadDocs]

OpenError == [kind |-> "OpenError", args |-> <<>>]
ReadError == [kind |-> "ReadError", args |-> <<>>]
UnmarshalError(ext) == [kind |-> "UnmarshalError", args |-> <<ext>>]

\* json.Unmarshal and toml.Unmarshal: the decoder of format fmt on the contents
Unmarshal(fmt, f) ==
    IF f.format = fmt THEN [save |-> <<f.doc>>, err |-> NoError]
                      ELSE [save |-> <<ZeroDoc>>, err |-> UnmarshalError(fmt)]

LoadFileResult(f) ==
    IF ~f.exists THEN [save |-> <<>>, err |-> OpenError]
    ELSE IF ~f.readable THEN [save |-> <<>>, err |-> ReadError]
    ELSE LET res == CASE f.ext = ".json" -> Unmarshal("json", f)
                      [] f.ext = ".toml" -> Unmarshal("toml", f)
                      [] OTHER -> [save |-> <<ZeroDoc>>, err |-> NoError]
         IN  IF res.err.kind # "nil"
             THEN [save |-> <<>>, err |-> res.err]
             ELSE [save |-> res.save, err |-> NoError]

----------------------------------------------------------------------------
(* Game.Import, section by section *)

Card(rk, s) == [Suit |-> s, Rank |-> rk, Unknown |-> FALSE]

\* a Game that was played before Import is called on it
OldGame ==
    [Stock |-> [Limit |-> 1, Loop |-> 0, Pos |-> 0, Stack |-> <<Card(13, DIAMONDS)>>],
     Tableau |-> [Stacks |-> [j \in 1..MaxTableau |-> <<Card(2, CLUBS)>>],
                  Facedown |-> [j \in 1..MaxTableau |-> 0]],
     Foundations |-> [s \in CardSuit |-> <<Card(1, s)>>]]

TooManyStacksError(n) == [kind |-> "TooManyStacks", args |-> <<n>>]
LengthMismatchError == [kind |-> "LengthMismatch", args |-> <<>>]
TopCardFacedownError(i, n, fd) == [kind |-> "TopCardFacedown", args |-> <<i, n, fd>>]
TooManyFacedownError(fd) == [kind |-> "TooManyFacedown", args |-> <<fd>>]
UnrecognizedFoundationError(key) == [kind |-> "UnrecognizedFoundation", args |-> <<key>>]
SuitMismatchError(key, code, i) == [kind |-> "SuitMismatch", args |-> <<key, code, i>>]
IncompleteDeckError(total) == [kind |-> "IncompleteDeck", args |-> <<total>>]

\* StockSection that empties the Game's foundations first
StockSection_ResetsFoundations(doc, g) ==
    LET res == AddCards(NewRegister, doc.Stock.Stack)
        g1 == [g EXCEPT !.Stock.Limit = doc.Stock.Limit,
                        !.Stock.Loop = doc.Stock.Loop,
                        !.Stock.Pos = doc.Stock.Pos,
                        !.Foundations = [s \in CardSuit |-> <<>>]]
    IN  [game |-> IF res.err.kind # "nil" THEN g1
                  ELSE [g1 EXCEPT !.Stock.Stack = res.cards],
         r |-> res.r, err |-> res.err]

\* lines 64-74
StockSection(doc, g) ==
    LET res == AddCards(NewRegister, doc.Stock.Stack)
        g1 == [g EXCEPT !.Stock.Limit = doc.Stock.Limit,
                        !.Stock.Loop = doc.Stock.Loop,
                        !.Stock.Pos = doc.Stock.Pos]
    IN  [game |-> IF res.err.kind # "nil" THEN g1
                  ELSE [g1 EXCEPT !.Stock.Stack = res.cards],
         r |-> res.r, err |-> res.err]

\* TableauShape with a limit that is one too high
TableauShape_AtMostEight(doc) ==
    LET tbSize == Len(doc.Tableau.Stacks)
    IN  IF tbSize > MaxTableau + 1 THEN TooManyStacksError(tbSize)
        ELSE IF Len(doc.Tableau.Facedown) # tbSize THEN LengthMismatchError
        ELSE NoError

\* lines 77-84
TableauShape(doc) ==
    LET tbSize == Len(doc.Tableau.Stacks)
    IN  IF tbSize > MaxTableau THEN TooManyStacksError(tbSize)
        ELSE IF Len(doc.Tableau.Facedown) # tbSize THEN LengthMismatchError
        ELSE NoError

\* TableauStack with > for >= at line 88
TableauStack_Strict(doc, i, g, reg, fd) ==
    LET codes == doc.Tableau.Stacks[i + 1]
        facedown == doc.Tableau.Facedown[i + 1]
        fd1 == fd + facedown
    IN  IF facedown > Len(codes)
        THEN [game |-> g, r |-> reg, fdTotal |-> fd1,
              err |-> TopCardFacedownError(i, Len(codes), facedown)]
        ELSE LET res == AddCards(reg, codes)
             IN  IF res.err.kind # "nil"
                 THEN [game |-> g, r |-> res.r, fdTotal |-> fd1, err |-> res.err]
                 ELSE [game |-> [g EXCEPT !.Tableau.Stacks[i + 1] = res.cards,
                                          !.Tableau.Facedown[i + 1] = facedown],
                       r |-> res.r, fdTotal |-> fd1, err |-> NoError]

\* TableauStack without the assignment of line 95
TableauStack_NoFacedown(doc, i, g, reg, fd) ==
    LET codes == doc.Tableau.Stacks[i + 1]
        facedown == doc.Tableau.Facedown[i + 1]
        fd1 == fd + facedown
    IN  IF facedown >= Len(codes)
        THEN [game |-> g, r |-> reg, fdTotal |-> fd1,
              err |-> TopCardFacedownError(i, Len(codes), facedown)]
        ELSE LET res == AddCards(reg, codes)
             IN  IF res.err.kind # "nil"
                 THEN [game |-> g, r |-> res.r, fdTotal |-> fd1, err |-> res.err]
                 ELSE [game |-> [g EXCEPT !.Tableau.Stacks[i + 1] = res.cards],
                       r |-> res.r, fdTotal |-> fd1, err |-> NoError]

\* lines 85-97, the iteration with index i (from 0)
TableauStack(doc, i, g, reg, fd) ==
    LET codes == doc.Tableau.Stacks[i + 1]
        facedown == doc.Tableau.Facedown[i + 1]
        fd1 == fd + facedown
    IN  IF facedown >= Len(codes)
        THEN [game |-> g, r |-> reg, fdTotal |-> fd1,
              err |-> TopCardFacedownError(i, Len(codes), facedown)]
        ELSE LET res == AddCards(reg, codes)
             IN  IF res.err.kind # "nil"
                 THEN [game |-> g, r |-> res.r, fdTotal |-> fd1, err |-> res.err]
                 ELSE [game |-> [g EXCEPT !.Tableau.Stacks[i + 1] = res.cards,
                                          !.Tableau.Facedown[i + 1] = facedown],
                       r |-> res.r, fdTotal |-> fd1, err |-> NoError]

\* FacedownCheck with a limit that is one too high
FacedownCheck_AboveLimit(fd) ==
    IF fd > MaxFacedown + 1 THEN TooManyFacedownError(fd) ELSE NoError

\* FacedownCheck with >= for >
FacedownCheck_AtLimit(fd) ==
    IF fd >= MaxFacedown THEN TooManyFacedownError(fd) ELSE NoError

\* lines 98-100
FacedownCheck(fd) ==
    IF fd > MaxFacedown THEN TooManyFacedownError(fd) ELSE NoError

\* lines 118-130: the codes of one foundation from index n (from 1) on
RECURSIVE FoundationCards(_, _, _, _, _, _)
FoundationCards(reg, codes, suit, key, n, stack) ==
    IF n > Len(codes)
    THEN [r |-> reg, cards |-> stack, err |-> NoError]
    ELSE LET res == AddCard(reg, codes[n])
         IN  IF res.err.kind # "nil"
             THEN [r |-> res.r, cards |-> <<>>, err |-> res.err]
             ELSE IF res.card[1].Suit = suit
             THEN FoundationCards(res.r, codes, suit, key, n + 1,
                                  Append(stack, res.card[1]))
             ELSE [r |-> res.r, cards |-> <<>>,
                   err |-> SuitMismatchError(key, codes[n], n - 1)]

\* Foundation without the suit test of line 125
Foundation_NoSuitTest(doc, key, g, reg) ==
    IF key \notin CanonicalKeys
    THEN [game |-> g, r |-> reg, err |-> UnrecognizedFoundationError(key)]
    ELSE LET suit == SuitOfKey(key)
             res == AddCards(reg, doc.Foundations[key])
         IN  IF res.err.kind # "nil"
             THEN [game |-> g, r |-> res.r, err |-> res.err]
             ELSE [game |-> [g EXCEPT !.Foundations = MapSet(@, suit, res.cards)],
                   r |-> res.r, err |-> NoError]

\* lines 103-132, the iteration that takes key
Foundation(doc, key, g, reg) ==
    IF key \notin CanonicalKeys
    THEN [game |-> g, r |-> reg, err |-> UnrecognizedFoundationError(key)]
    ELSE LET suit == SuitOfKey(key)
             res == FoundationCards(reg, doc.Foundations[key], suit, key, 1, <<>>)
         IN  IF res.err.kind # "nil"
             THEN [game |-> g, r |-> res.r, err |-> res.err]
             ELSE [game |-> [g EXCEPT !.Foundations = MapSet(@, suit, res.cards)],
                   r |-> res.r, err |-> NoError]

\* FinalCheck with > for !=
FinalCheck_Above(reg) ==
    IF reg.Total > DeckSize THEN IncompleteDeckError(reg.Total) ELSE NoError

\* lines 133-137
FinalCheck(reg) ==
    IF reg.Total # DeckSize THEN IncompleteDeckError(reg.Total) ELSE NoError

----------------------------------------------------------------------------
(* The program: LoadFile, then Import on the document it returned *)

NoCall == [op |-> "none", codes |-> <<>>, err |-> NoError, cards |-> <<>>]

Init ==
    /\ file \in Files
    /\ save = <<>>
    /\ loaderr = NoError
    /\ pc = "load"
    /\ returned = FALSE
    /\ err = NoError
    /\ game = OldGame
    /\ r = NewRegister
    /\ fdTotal = 0
    /\ idx = 0
    /\ visited = {}
    /\ call = NoCall
    /\ calls = 0

LoadFile ==
    /\ pc = "load"
    /\ loaderr.kind = "nil"
    /\ LET res == LoadFileResult(file)
       IN  /\ save' = res.save
           /\ loaderr' = res.err
           /\ pc' = IF res.err.kind = "nil" THEN "stock" ELSE "load"
    /\ UNCHANGED <<file, returned, err, game, r, fdTotal, idx, visited, call, calls>>

Running(section) == pc = section /\ ~returned

ImportStock ==
    /\ Running("stock")
    /\ LET res == StockSection(save[1], game)
       IN  /\ game' = res.game
           /\ r' = res.r
           /\ err' = res.err
           /\ returned' = (res.err.kind # "nil")
           /\ pc' = IF res.err.kind # "nil" THEN pc ELSE "tableau"
    /\ UNCHANGED <<file, save, loaderr, fdTotal, idx, visited, call, calls>>

ImportTableauShape ==
    /\ Running("tableau")
    /\ LET e == TableauShape(save[1])
       IN  /\ err' = e
           /\ returned' = (e.kind # "nil")
           /\ pc' = IF e.kind # "nil" THEN pc ELSE "stacks"
    /\ fdTotal' = 0
    /\ idx' = 0
    /\ UNCHANGED <<file, save, loaderr, game, r, visited, call, calls>>

ImportTableauStack ==
    /\ Running("stacks")
    /\ idx < Len(save[1].Tableau.Stacks)
    /\ LET res == TableauStack(save[1], idx, game, r, fdTotal)
       IN  /\ game' = res.game
           /\ r' = res.r
           /\ fdTotal' = res.fdTotal
           /\ err' = res.err
           /\ returned' = (res.err.kind # "nil")
           /\ idx' = IF res.err.kind # "nil" THEN idx ELSE idx + 1
    /\ UNCHANGED <<file, save, loaderr, pc, visited, call, calls>>

ImportFacedownCheck ==
    /\ Running("stacks")
    /\ idx = Len(save[1].Tableau.Stacks)
    /\ LET e == FacedownCheck(fdTotal)
       IN  /\ err' = e
           /\ returned' = (e.kind # "nil")
           /\ pc' = IF e.kind # "nil" THEN pc ELSE "foundations"
    /\ UNCHANGED <<file, save, loaderr, game, r, fdTotal, idx, visited, call, calls>>

\* range over a Go map takes the keys in an order that is not specified
ImportFoundation ==
    /\ Running("foundations")
    /\ \E key \in DOMAIN save[1].Foundations \ visited :
          LET res == Foundation(save[1], key, game, r)
          IN  /\ visited' = visited \cup {key}
              /\ game' = res.game
              /\ r' = res.r
              /\ err' = res.err
              /\ returned' = (res.err.kind # "nil")
    /\ UNCHANGED <<file, save, loaderr, pc, fdTotal, idx, call, calls>>

ImportFinal ==
    /\ Running("foundations")
    /\ visited = DOMAIN save[1].Foundations
    /\ err' = FinalCheck(r)
    /\ returned' = TRUE
    /\ pc' = "final"
    /\ UNCHANGED <<file, save, loaderr, game, r, fdTotal, idx, visited, call, calls>>

Next ==
    \/ LoadFile
    \/ ImportStock
    \/ ImportTableauShape
    \/ ImportTableauStack
    \/ ImportFacedownCheck
    \/ ImportFoundation
    \/ ImportFinal

Spec == Init /\ [][Next]_vars

----------------------------------------------------------------------------
(* A Register under any sequence of AddCard and AddCards calls *)

MaxCalls == 3     \* codes handed to one Register after its start
MaxBatch == 2     \* codes in one AddCards call

\* the Register starts new, or after the first n cards of the deck were added:
\* 48 leaves the diamonds T, J, Q, K out and 51 the king of diamonds
StartSizes == {0, 48, 51}

RegCodes == {Code(1, SPADES), Code(13, DIAMONDS), WildCode(1, SPADES),
             WildCode(13, DIAMONDS), WildCode(13, SPADES), WildCode(1, DIAMONDS),
             BadCode}

BatchCodes == {Code(13, DIAMONDS), WildCode(13, DIAMONDS), WildCode(1, SPADES), BadCode}

RegBatches == UNION {[1..n -> BatchCodes] : n \in 0..MaxBatch}

InitReg ==
    /\ file = [exists |-> FALSE, readable |-> FALSE, ext |-> "",
               format |-> "garbage", doc |-> ZeroDoc]
    /\ save = <<>>
    /\ loaderr = NoError
    /\ pc = "register"
    /\ returned = FALSE
    /\ err = NoError
    /\ game = OldGame
    /\ r \in {AddCards(NewRegister, SubSeq(Deck, 1, n)).r : n \in StartSizes}
    /\ fdTotal = 0
    /\ idx = 0
    /\ visited = {}
    /\ call = NoCall
    /\ calls = 0

RegAddCard ==
    /\ pc = "register"
    /\ calls < MaxCalls
    /\ \E code \in RegCodes :
          LET res == AddCard(r, code)
          IN  /\ r' = res.r
              /\ call' = [op |-> "AddCard", codes |-> <<code>>,
                          err |-> res.err, cards |-> res.card]
    /\ calls' = calls + 1
    /\ UNCHANGED <<file, save, loaderr, pc, returned, err, game, fdTotal, idx, visited>>

RegAddCards ==
    /\ pc = "register"
    /\ \E codes \in RegBatches :
          LET res == AddCards(r, codes)
          IN  /\ calls + Len(codes) <= MaxCalls
              /\ r' = res.r
              /\ call' = [op |-> "AddCards", codes |-> codes,
                          err |-> res.err, cards |-> res.cards]
              /\ calls' = calls + Len(codes)
    /\ UNCHANGED <<file, save, loaderr, pc, returned, err, game, fdTotal, idx, visited>>

NextReg ==
    \/ RegAddCard
    \/ RegAddCards

SpecReg == InitReg /\ [][NextReg]_vars

----------------------------------------------------------------------------
(* Import as one function of the document, the Game and the order in which *)
(* the range loop takes the keys of save.Foundations                       *)

RECURSIVE TableauFrom(_, _, _, _, _)
TableauFrom(doc, i, g, reg, fd) ==
    IF i = Len(doc.Tableau.Stacks)
    THEN [game |-> g, r |-> reg, fdTotal |-> fd, err |-> FacedownCheck(fd)]
    ELSE LET res == TableauStack(doc, i, g, reg, fd)
         IN  IF res.err.kind # "nil" THEN res
             ELSE TableauFrom(doc, i + 1, res.game, res.r, res.fdTotal)

RECURSIVE FoundationsFrom(_, _, _, _, _)
FoundationsFrom(doc, order, n, g, reg) ==
    IF n > Len(order)
    THEN [game |-> g, r |-> reg, err |-> FinalCheck(reg)]
    ELSE LET res == Foundation(doc, order[n], g, reg)
         IN  IF res.err.kind # "nil" THEN res
             ELSE FoundationsFrom(doc, order, n + 1, res.game, res.r)

ImportWith(doc, g, order) ==
    LET st == StockSection(doc, g)
    IN  IF st.err.kind # "nil" THEN [game |-> st.game, err |-> st.err]
        ELSE IF TableauShape(doc).kind # "nil"
        THEN [game |-> st.game, err |-> TableauShape(doc)]
        ELSE LET tb == TableauFrom(doc, 0, st.game, st.r, 0)
             IN  IF tb.err.kind # "nil" THEN [game |-> tb.game, err |-> tb.err]
                 ELSE LET fo == FoundationsFrom(doc, order, 1, tb.game, tb.r)
                      IN  [game |-> fo.game, err |-> fo.err]

\* the orders in which a range loop can take the keys of a map
Orders(keys) ==
    {q \in [1..Cardinality(keys) -> keys] : \A k \in keys : \E n \in DOMAIN q : q[n] = k}

----------------------------------------------------------------------------
(* What a document says, read off the document alone *)

RECURSIVE Concat(_)
Concat(qs) == IF Len(qs) = 0 THEN <<>> ELSE Head(qs) \o Concat(Tail(qs))

RECURSIVE FoundationCodes(_, _)
FoundationCodes(F, keys) ==
    IF keys = {} THEN <<>>
    ELSE LET k == CHOOSE x \in keys : TRUE
         IN  F[k] \o FoundationCodes(F, keys \ {k})

\* every code of the stock, the tableau stacks and the foundations
AllCodes(doc) ==
    doc.Stock.Stack \o Concat(doc.Tableau.Stacks)
        \o FoundationCodes(doc.Foundations, DOMAIN doc.Foundations)

NumCodes(doc) == Len(AllCodes(doc))

IsWildCode(code) == Contains(code, WildMark)

\* the codes are the 52 cards of one deck, each once, known or unknown
IsDeck(doc) ==
    LET q == AllCodes(doc)
    IN  /\ Len(q) = DeckSize
        /\ \A n \in 1..Len(q) : Len(q[n]) \in {2, 3} /\ (Len(q[n]) = 3 => q[n][3] = WildMark)
        /\ {SubSeq(q[n], 1, 2) : n \in 1..Len(q)} = SeqSet(Deck)

HasDuplicate(doc) ==
    LET q == AllCodes(doc)
    IN  \E m, n \in 1..Len(q) : m < n /\ q[m] = q[n] /\ ~IsWildCode(q[m])

CodeSuit(code) == CHOOSE s \in CardSuit : SuitChars[s] = code[2]
CodeRank(code) == CHOOSE rk \in CardRank : RankChars[rk] = code[1]
WellFormed(code) ==
    /\ Len(code) \in {2, 3}
    /\ code[1] \in SeqSet(RankChars)
    /\ code[2] \in {SuitChars[s] : s \in CardSuit}
    /\ Len(code) = 3 => code[3] = WildMark

CardOfCode(code) == [Suit |-> CodeSuit(code), Rank |-> CodeRank(code),
                     Unknown |-> Len(code) = 3]
CardsOf(codes) == [n \in 1..Len(codes) |-> CardOfCode(codes[n])]

FoundationsMatch(doc) ==
    \A k \in DOMAIN doc.Foundations :
        /\ k \in CanonicalKeys
        /\ \A n \in 1..Len(doc.Foundations[k]) :
              /\ WellFormed(doc.Foundations[k][n])
              /\ CodeSuit(doc.Foundations[k][n]) = SuitOfKey(k)

TopsFaceUp(doc) ==
    /\ Len(doc.Tableau.Facedown) = Len(doc.Tableau.Stacks)
    /\ \A i \in 1..Len(doc.Tableau.Stacks) :
          doc.Tableau.Facedown[i] < Len(doc.Tableau.Stacks[i])

ImportReturned == pc \in {"stock", "tableau", "stacks", "foundations", "final"} /\ returned

----------------------------------------------------------------------------
(* Claims *)

\* C1 as stated: a document that holds one 52-card deck, has at most 7 stacks,
\* a facedown total of at most 21 and suit-matched foundations is imported
\* with success.
C1_AsStated ==
    (/\ ImportReturned
     /\ IsDeck(save[1])
     /\ Len(save[1].Tableau.Stacks) <= MaxTableau
     /\ SumSeq(save[1].Tableau.Facedown) <= MaxFacedown
     /\ FoundationsMatch(save[1]))
    => err.kind = "nil"

\* C1 amended: ... and whose Facedown is as long as Stacks with every facedown
\* count below the length of its stack, is imported with success.
C1_ValidDocumentImports ==
    (/\ ImportReturned
     /\ IsDeck(save[1])
     /\ Len(save[1].Tableau.Stacks) <= MaxTableau
     /\ SumSeq(save[1].Tableau.Facedown) <= MaxFacedown
     /\ FoundationsMatch(save[1])
     /\ TopsFaceUp(save[1]))
    => err.kind = "nil"

C1_Witness ==
    /\ ImportReturned
    /\ err.kind = "nil"
    /\ IsDeck(save[1])
    /\ Len(save[1].Tableau.Stacks) = MaxTableau
    /\ SumSeq(save[1].Tableau.Facedown) = MaxFacedown
    /\ DOMAIN save[1].Foundations = CanonicalKeys

\* C2: Import succeeds only with exactly 52 registered cards; a run that
\* reaches the final check with t # 52 codes in the document fails with
\* IncompleteDeckError reporting t.
C2_ExactlyFiftyTwo ==
    ImportReturned =>
        /\ err.kind = "nil" => NumCodes(save[1]) = DeckSize /\ r.Total = DeckSize
        /\ (pc = "final" /\ NumCodes(save[1]) # DeckSize)
              => (err.kind = "IncompleteDeck" /\ err.args = <<NumCodes(save[1])>>)

C2_Witness ==
    /\ ImportReturned
    /\ pc = "final"
    /\ NumCodes(save[1]) = DeckSize - 1
    /\ err.kind = "IncompleteDeck"
    /\ err.args = <<DeckSize - 1>>

\* C3 as stated: a document in which a non-wildcard code appears twice fails
\* with DuplicateCardError wherever the two occurrences are.
C3_AsStated ==
    (ImportReturned /\ HasDuplicate(save[1])) => err.kind = "DuplicateCardError"

\* the document has no defect other than repeated codes
NoOtherDefect(doc) ==
    /\ \A n \in 1..NumCodes(doc) :
          WellFormed(AllCodes(doc)[n]) /\ ~IsWildCode(AllCodes(doc)[n])
    /\ Len(doc.Tableau.Stacks) <= MaxTableau
    /\ TopsFaceUp(doc)
    /\ SumSeq(doc.Tableau.Facedown) <= MaxFacedown
    /\ FoundationsMatch(doc)

\* C3 amended: a document in which a non-wildcard code appears twice is never
\* imported with success, and it fails with DuplicateCardError when it has no
\* other defect.
C3_DuplicateNeverImports ==
    (ImportReturned /\ HasDuplicate(save[1])) =>
        /\ err.kind # "nil"
        /\ NoOtherDefect(save[1]) => err.kind = "DuplicateCardError"

C3_Witness ==
    /\ ImportReturned
    /\ HasDuplicate(save[1])
    /\ NoOtherDefect(save[1])
    /\ pc = "foundations"
    /\ err.kind = "DuplicateCardError"

C5_OrderIndependent ==
    ImportReturned =>
        \A order \in Orders(DOMAIN save[1].Foundations) :
            LET out == ImportWith(save[1], OldGame, order)
            IN  /\ out.err.kind = err.kind
                /\ out.err.args = err.args
                /\ out.game = game

\* C6: after a successful Import the Game holds the document: the stock
\* scalars, the stock cards, every tableau stack with its facedown count and
\* every foundation that has a key, all in the document's order.
C6_GameReflectsDocument ==
    (ImportReturned /\ err.kind = "nil") =>
        LET doc == save[1]
        IN  /\ game.Stock.Limit = doc.Stock.Limit
            /\ game.Stock.Loop = doc.Stock.Loop
            /\ game.Stock.Pos = doc.Stock.Pos
            /\ game.Stock.Stack = CardsOf(doc.Stock.Stack)
            /\ \A i \in 1..Len(doc.Tableau.Stacks) :
                  /\ game.Tableau.Stacks[i] = CardsOf(doc.Tableau.Stacks[i])
                  /\ game.Tableau.Facedown[i] = doc.Tableau.Facedown[i]
            /\ \A k \in DOMAIN doc.Foundations :
                  game.Foundations[SuitOfKey(k)] = CardsOf(doc.Foundations[k])

C6_Witness ==
    /\ ImportReturned
    /\ err.kind = "nil"
    /\ Len(save[1].Tableau.Stacks) = MaxTableau
    /\ "hearts" \in DOMAIN save[1].Foundations
    /\ Len(save[1].Foundations["hearts"]) > 1
    /\ Len(game.Stock.Stack) > 1
    /\ ~game.Foundations[HEARTS][1].Unknown
    /\ game.Foundations[HEARTS][2].Unknown

\* C7: AddCard of a wildcard code never fails with DuplicateCardError and
\* never changes the set of seen identities; only a parse error or an
\* overflow rejects it.
C7_WildcardNeverDuplicate ==
    [][(pc = "register" /\ call'.op = "AddCard" /\ calls' = calls + 1
          /\ IsWildCode(call'.codes[1]))
       => (/\ call'.err.kind \in {"nil", "OverflowError", "ParseError"}
           /\ r'.Cards = r.Cards)]_vars

C7_Witness ==
    /\ pc = "register"
    /\ call.op = "AddCard"
    /\ call.codes = <<WildCode(13, DIAMONDS)>>
    /\ call.err.kind = "nil"
    /\ r.Total = 2
    /\ MapGet(r.Suits, DIAMONDS) = 2
    /\ MapGet(r.Ranks, 13) = 2
    /\ r.Cards = {}

\* C8: LoadFile of a file whose extension is neither .json nor .toml returns
\* an error and no document.
C8_UnknownExtensionFails ==
((pc \notin {"load", "register"} \/ loaderr.kind # "nil")
        /\ file.ext \notin {".json", ".toml"})
    => (loaderr.kind # "nil" /\ save = <<>>)

\* C9: when the stock and the tableau are accepted and Foundations has a key
\* that is no suit name, Import fails with UnrecognizedFoundationError naming
\* that key, whatever the other foundations hold.
C9_UnrecognizedKeyReported ==
    (/\ ImportReturned
     /\ pc \in {"foundations", "final"}
     /\ DOMAIN save[1].Foundations \ CanonicalKeys # {})
    => (/\ err.kind = "UnrecognizedFoundation"
        /\ err.args[1] \in DOMAIN save[1].Foundations \ CanonicalKeys)

\* the codes 1..j of a foundation register on reg without error: they are
\* well-formed, the known ones are new and distinct, no count passes its limit
RegistersCleanly(reg, codes, j) ==
    /\ \A n \in 1..j : WellFormed(codes[n])
    /\ \A n \in 1..j : ~IsWildCode(codes[n]) =>
          /\ codes[n] \notin reg.Cards
          /\ \A m \in 1..(n - 1) : codes[m] # codes[n]
    /\ reg.Total + j <= DeckSize
    /\ \A s \in CardSuit :
          MapGet(reg.Suits, s) + Cardinality({n \in 1..j : CodeSuit(codes[n]) = s})
              <= SuitSize
    /\ \A rk \in CardRank :
          MapGet(reg.Ranks, rk) + Cardinality({n \in 1..j : CodeRank(codes[n]) = rk})
              <= RankSize

\* C10: when the loop takes the foundation of suit key k and the code at
\* index j (from 0) is the first that registers but is of another suit, Import
\* returns SuitMismatchError with k, that code and j, and the Game's
\* foundations are as they were.
C10_SuitMismatchReported ==
    [][\A k \in CanonicalKeys :
        \A j \in 0..MaxFoundation :
          (/\ Running("foundations")
           /\ k \in DOMAIN save[1].Foundations \ visited
           /\ visited' = visited \cup {k}
           /\ j < Len(save[1].Foundations[k])
           /\ RegistersCleanly(r, save[1].Foundations[k], j + 1)
           /\ \A n \in 1..j : CodeSuit(save[1].Foundations[k][n]) = SuitOfKey(k)
           /\ CodeSuit(save[1].Foundations[k][j + 1]) # SuitOfKey(k))
          => (/\ returned'
              /\ err'.kind = "SuitMismatch"
              /\ err'.args = <<k, save[1].Foundations[k][j + 1], j>>
              /\ game'.Foundations = game.Foundations)]_vars

C10_Witness ==
    /\ ImportReturned
    /\ pc = "foundations"
    /\ err.kind = "SuitMismatch"
    /\ err.args[1] = "hearts"
    /\ err.args[3] = 1
    /\ game.Foundations = OldGame.Foundations

\* the lengths of the first n stacks of the tableau, summed
StackCards(doc, n) ==
    SumSeq([j \in 1..n |-> Len(doc.Tableau.Stacks[j])])

\* C11: when the loop reaches a stack i (from 0) whose facedown count is >=
\* its length, all stacks before it accepted, Import returns the 'top card
\* must not be facedown' error for i and registers no card of that stack.
C11_TopCardFacedown ==
    [][(/\ Running("stacks")
        /\ idx < Len(save[1].Tableau.Stacks)
        /\ save[1].Tableau.Facedown[idx + 1] >= Len(save[1].Tableau.Stacks[idx + 1]))
       => (/\ returned'
           /\ err'.kind = "TopCardFacedown"
           /\ err'.args = <<idx, Len(save[1].Tableau.Stacks[idx + 1]),
                            save[1].Tableau.Facedown[idx + 1]>>
           /\ r' = r
           /\ r'.Total = Len(save[1].Stock.Stack) + StackCards(save[1], idx)
           /\ game' = game)]_vars

C11_Witness ==
    /\ ImportReturned
    /\ pc = "stacks"
    /\ err.kind = "TopCardFacedown"
    /\ idx = MaxTableau - 1
    /\ Len(save[1].Tableau.Stacks[idx + 1]) = 0
    /\ r.Total = Len(save[1].Stock.Stack) + StackCards(save[1], idx)

\* the stock and the tableau stacks of the document register on a new
\* Register without error
StockAndTableauRegister(doc) ==
    LET q == doc.Stock.Stack \o Concat(doc.Tableau.Stacks)
    IN  RegistersCleanly(NewRegister, q, Len(q))

\* C12: a document whose stock and tableau register without error, whose
\* stacks all have their top card face up and whose facedown counts sum to
\* more than 21 fails with the 'too many facedown cards' error, and by then
\* every tableau card is counted in the Register's total.
C12_FacedownTotalAfterStacks ==
    (/\ ImportReturned
     /\ Len(save[1].Tableau.Stacks) <= MaxTableau
     /\ TopsFaceUp(save[1])
     /\ StockAndTableauRegister(save[1])
     /\ SumSeq(save[1].Tableau.Facedown) > MaxFacedown)
    => (/\ pc = "stacks"
        /\ err.kind = "TooManyFacedown"
        /\ err.args = <<SumSeq(save[1].Tableau.Facedown)>>
        /\ idx = Len(save[1].Tableau.Stacks)
        /\ r.Total = Len(save[1].Stock.Stack)
                        + StackCards(save[1], Len(save[1].Tableau.Stacks)))

C12_Witness ==
    /\ ImportReturned
    /\ err.kind = "TooManyFacedown"
    /\ err.args = <<MaxFacedown + 1>>
    /\ Len(save[1].Tableau.Stacks) = MaxTableau
    /\ TopsFaceUp(save[1])
    /\ r.Total = Len(save[1].Stock.Stack) + StackCards(save[1], MaxTableau)

BadShape(doc) ==
    \/ Len(doc.Tableau.Stacks) > MaxTableau
    \/ Len(doc.Tableau.Facedown) # Len(doc.Tableau.Stacks)

\* C13: with more than 7 stacks, or a Facedown of another length, Import never
\* reaches the loop over the stacks: the Game's tableau stays as it was, and
\* when the stock registers without error Import returns the structural error
\* with only the stock's cards registered.
C13_ShapeCheckedFirst ==
    (/\ pc \in {"stock", "tableau", "stacks", "foundations", "final"}
     /\ BadShape(save[1]))
    => (/\ pc \in {"stock", "tableau"}
        /\ game.Tableau = OldGame.Tableau
        /\ (returned /\ RegistersCleanly(NewRegister, save[1].Stock.Stack,
                                         Len(save[1].Stock.Stack)))
              => (/\ pc = "tableau"
                  /\ r.Total = Len(save[1].Stock.Stack)
                  /\ IF Len(save[1].Tableau.Stacks) > MaxTableau
                     THEN /\ err.kind = "TooManyStacks"
                          /\ err.args = <<Len(save[1].Tableau.Stacks)>>
                     ELSE err.kind = "LengthMismatch"))

C13_Witness ==
    /\ ImportReturned
    /\ pc = "tableau"
    /\ err.kind = "TooManyStacks"
    /\ Len(save[1].Tableau.Stacks) = MaxTableau + 1
    /\ r.Total = Len(save[1].Stock.Stack)
    /\ game.Tableau = OldGame.Tableau

\* a step of the Register that is one AddCard call, and one that is an
\* AddCards call
AddCardStep == pc = "register" /\ call'.op = "AddCard" /\ calls' = calls + 1
AddCardsStep == pc = "register" /\ call'.op = "AddCards"
                    /\ calls' = calls + Len(call'.codes)

\* C14: an AddCard call that records an overflow of the total, the suit count
\* or the rank count leaves that counter at the value it had before the call.
C14_OverflowRolledBack ==
    [][(AddCardStep /\ call'.err.kind = "OverflowError") =>
          LET code == call'.codes[1]
              invalids == SeqSet(call'.err.args)
          IN  /\ <<"too many cards.">> \in invalids => r'.Total = r.Total
              /\ <<"too many", SuitName(CodeSuit(code)), "cards">> \in invalids
                    => MapGet(r'.Suits, CodeSuit(code)) = MapGet(r.Suits, CodeSuit(code))
              /\ <<"too many", RankName(CodeRank(code)), "cards">> \in invalids
                    => MapGet(r'.Ranks, CodeRank(code)) = MapGet(r.Ranks, CodeRank(code))]_vars

\* the violations one more card of the code's suit and rank brings about on
\* the counters of reg, in the order total, suit, rank
Exceeded(reg, code) ==
    (IF reg.Total + 1 > DeckSize THEN << <<"too many cards.">> >> ELSE <<>>)
    \o (IF MapGet(reg.Suits, CodeSuit(code)) + 1 > SuitSize
        THEN << <<"too many", SuitName(CodeSuit(code)), "cards">> >> ELSE <<>>)
    \o (IF MapGet(reg.Ranks, CodeRank(code)) + 1 > RankSize
        THEN << <<"too many", RankName(CodeRank(code)), "cards">> >> ELSE <<>>)

\* C15: AddCard of a code that parses and is no duplicate fails with
\* OverflowError exactly when the Register's total, suit count or rank count
\* would pass 52, 13 or 4, and the error lists exactly the counters that
\* would, in the order total, suit, rank.
C15_OverflowExactly ==
    [][(/\ AddCardStep
        /\ WellFormed(call'.codes[1])
        /\ IsWildCode(call'.codes[1]) \/ call'.codes[1] \notin r.Cards)
       => LET exp == Exceeded(r, call'.codes[1])
          IN  IF Len(exp) = 0
              THEN call'.err.kind = "nil"
              ELSE call'.err.kind = "OverflowError" /\ call'.err.args = exp]_vars

C15_Witness ==
    /\ pc = "register"
    /\ call.op = "AddCard"
    /\ call.err.kind = "OverflowError"
    /\ Len(call.err.args) = 3
    /\ r.Total = DeckSize

\* C16: a non-wildcard code whose AddCard fails with an overflow is in Cards
\* afterwards, and AddCard of a code that is in Cards fails with
\* DuplicateCardError and changes nothing.
C16_SeenAfterOverflow ==
    [][(/\ AddCardStep
        /\ WellFormed(call'.codes[1])
        /\ ~IsWildCode(call'.codes[1]))
       => (/\ call'.err.kind = "OverflowError" => call'.codes[1] \in r'.Cards
           /\ call'.codes[1] \in r.Cards
                 => (call'.err.kind = "DuplicateCardError" /\ r' = r))]_vars

C16_Witness ==
    /\ pc = "register"
    /\ calls = 3
    /\ call.op = "AddCard"
    /\ call.codes = <<Code(13, DIAMONDS)>>
    /\ call.err.kind = "DuplicateCardError"
    /\ r.Total = 50
    /\ MapGet(r.Ranks, 13) = RankSize + 1
    /\ MapGet(r.Suits, DIAMONDS) = 11

\* the Register after AddCard of the codes 1..n, one after the other
RECURSIVE RegAfter(_, _, _)
RegAfter(reg, codes, n) ==
    IF n = 0 THEN reg ELSE AddCard(RegAfter(reg, codes, n - 1), codes[n]).r

\* C17: AddCards returns the error of the first code whose AddCard fails, and
\* no cards, with the Register as that call left it; when no code fails it
\* returns the card of every code in order.
C17_AddCardsStopsAtFirstFailure ==
    [][AddCardsStep =>
          LET codes == call'.codes
              res(n) == AddCard(RegAfter(r, codes, n - 1), codes[n])
              bad == {n \in 1..Len(codes) : res(n).err.kind # "nil"}
          IN  IF bad = {}
              THEN /\ call'.err.kind = "nil"
                   /\ call'.cards = CardsOf(codes)
                   /\ r' = RegAfter(r, codes, Len(codes))
              ELSE LET f == CHOOSE n \in bad : \A m \in bad : n <= m
                   IN  /\ call'.err.kind = res(f).err.kind
                       /\ call'.err.args = res(f).err.args
                       /\ call'.cards = <<>>
                       /\ r' = res(f).r]_vars

C17_Witness ==
    /\ pc = "register"
    /\ call.op = "AddCards"
    /\ call.codes = <<WildCode(13, DIAMONDS), BadCode>>
    /\ call.err.kind = "ParseError"
    /\ call.cards = <<>>
    /\ r.Total = 1

\* C18: after a successful Import every facedown count of the Game's tableau
\* is at least 0 and below the length of its stack, and the counts sum to at
\* most 21.
C18_FacedownInRange ==
    (ImportReturned /\ err.kind = "nil") =>
        LET n == Len(save[1].Tableau.Stacks)
        IN  /\ \A i \in 1..n :
                  /\ 0 <= game.Tableau.Facedown[i]
                  /\ game.Tableau.Facedown[i] < Len(game.Tableau.Stacks[i])
            /\ SumSeq(SubSeq(game.Tableau.Facedown, 1, n)) <= MaxFacedown

InImport == pc \in {"stock", "tableau", "stacks", "foundations", "final"}

KeyOfSuit(s) == KeyOrder[CHOOSE n \in 1..4 : SuitOrder[n] = s]

\* C19: the tableau slots from len(Tableau.Stacks) on and the foundations of
\* the suits that are no key of the document keep the contents they had
\* before Import, at every point of Import and after it.
C19_UntouchedSlotsKept ==
    InImport =>
        /\ \A i \in (Len(save[1].Tableau.Stacks) + 1)..MaxTableau :
              /\ game.Tableau.Stacks[i] = OldGame.Tableau.Stacks[i]
              /\ game.Tableau.Facedown[i] = OldGame.Tableau.Facedown[i]
        /\ \A s \in CardSuit :
              KeyOfSuit(s) \notin DOMAIN save[1].Foundations
                  => game.Foundations[s] = OldGame.Foundations[s]

C19_Witness ==
    /\ ImportReturned
    /\ err.kind = "nil"
    /\ Len(save[1].Tableau.Stacks) = 2
    /\ DOMAIN save[1].Foundations = {"hearts"}
    /\ game.Tableau.Stacks[2] # OldGame.Tableau.Stacks[2]
    /\ game.Foundations[HEARTS] # OldGame.Foundations[HEARTS]
    /\ game.Tableau.Stacks[3] = OldGame.Tableau.Stacks[3]
    /\ game.Foundations[CLUBS] = OldGame.Foundations[CLUBS]

\* the codes Import has handed to the Register so far
Processed ==
    (IF pc = "stock" /\ ~returned THEN 0 ELSE Len(save[1].Stock.Stack))
    + StackCards(save[1], idx)
    + Len(FoundationCodes(save[1].Foundations, visited))

SuitSum(reg) == SumSeq([n \in 1..4 |-> MapGet(reg.Suits, SuitOrder[n])])
RankSum(reg) == SumSeq([rk \in 1..13 |-> MapGet(reg.Ranks, rk)])

\* C20: while no AddCard call of an Import has failed, the Register's total
\* is the sum of its suit counts, the sum of its rank counts and the number
\* of codes registered so far; at the final check it is the number of codes
\* of the document.
C20_TotalCountsCalls ==
    (InImport /\ (err.kind = "nil" \/ pc = "final")) =>
        /\ r.Total = SuitSum(r)
        /\ r.Total = RankSum(r)
        /\ r.Total = Processed
        /\ pc = "final" => r.Total = NumCodes(save[1])

C20_Witness ==
    /\ pc = "foundations"
    /\ ~returned
    /\ visited = {"hearts"}
    /\ DOMAIN save[1].Foundations = {"spades", "hearts"}
    /\ r.Total = DeckSize - MaxFoundation
    /\ SuitSum(r) = DeckSize - MaxFoundation

====
